---- MODULE Spec2Model ----
(***************************************************************************)
(* Model of scripts/generate.js (the AI-enriched generator, lines 129-504):*)
(* one run of main(), with the cache file, the in-memory cache, the        *)
(* classifier getProjectMetadata, the narrator getReleasePost, and the     *)
(* documents the run writes.  Texts returned by the generative service are *)
(* sequences of tokens; JavaScript values are records tagged by kind.      *)
(***************************************************************************)
EXTENDS Naturals, Sequences, FiniteSets, TLC

\* ------------------------------------------------------------------ bounds

\* Longest repository listing the listing service returns in the model.
MaxRepos == 2

\* Largest identifier for which the cache keys are compared.
MaxId == 12

\* ------------------------------------------------------- JavaScript values

Undefined == "<undefined>"
Null == "<null>"
NotAString == "<number>"

\* A JavaScript value: kind is "undefined", "null", "string" or "object"; an
\* object carries the two properties the program reads.
JsValue(k, c, d, t) == [kind |-> k, category |-> c, description_fr |-> d, text |-> t]
JsUndefined == JsValue("undefined", Undefined, Undefined, <<>>)
JsNull == JsValue("null", Undefined, Undefined, <<>>)
JsString(t) == JsValue("string", Undefined, Undefined, t)
JsObject(c, d) == JsValue("object", c, d, <<>>)

\* JavaScript truthiness, as tested by `if (x)` and `!x`.
Truthy(v) ==
    \/ v.kind = "object"
    \/ v.kind = "string" /\ v.text # <<>>

\* Truthiness of a property value (a string, null or undefined).
TruthyField(f) == f \notin {Undefined, Null, ""}

\* ------------------------------------------------------------ repositories

Categories == {"Gravity Forms", "IA", "Wordpress", "Outils", "Données"}

Repo(i, n, d, f) == [id |-> i, name |-> n, description |-> d, fork |-> f]
RepoAlpha == Repo(1, "alpha", "Un plugin", FALSE)
RepoBeta == Repo(2, "beta", Null, FALSE)
RepoGamma == Repo(3, "gamma", "Un fork", TRUE)
AllRepos == {RepoAlpha, RepoBeta, RepoGamma}

Release(i, t) == [id |-> i, tag_name |-> t]
ReleasesOf(repo) ==
    IF repo.id = 1 THEN {Release(1, "v1.1"), Release(2, "v1.0")}
    ELSE IF repo.id = 2 THEN {Release(3, "v0.1")}
    ELSE {}

\* The sequences of distinct elements of S of length at most n.
RECURSIVE DistinctSeqs(_, _)
DistinctSeqs(S, n) ==
    IF n = 0 THEN {<<>>}
    ELSE LET shorter == DistinctSeqs(S, n - 1)
             fresh == {p \in shorter \X S : \A a \in 1..Len(p[1]) : p[1][a] # p[2]}
         IN  shorter \cup {Append(p[1], p[2]) : p \in fresh}

\* Listings the repository-listing service can answer with.
Listings == DistinctSeqs(AllRepos, MaxRepos)

\* Release lists the release-listing service can answer with for a repository.
ReleaseLists(repo) == DistinctSeqs(ReleasesOf(repo), Cardinality(ReleasesOf(repo)))

\* ------------------------------------------------------------------- texts

\* Tokens of a service text: "x" a character of prose or markup, " " a
\* whitespace character, "FENCE" a triple-backtick code fence with its optional language tag,
\* the two braces, the JSON literal null, and the member lists of a
\* JSON object (Members gives what each one holds).
Members ==
    [mGood |-> [category |-> "IA", description_fr |-> "Une description"],
     mOut |-> [category |-> "Jeux", description_fr |-> "Une description"],
     mNoCat |-> [category |-> Undefined, description_fr |-> "Une description"],
     mNoDesc |-> [category |-> "Wordpress", description_fr |-> Undefined],
     mEmptyDesc |-> [category |-> "Données", description_fr |-> ""],
     mNumDesc |-> [category |-> "Outils", description_fr |-> NotAString]]

IsWhitespace(tok) == tok = " "

\* Replies of the service to the metadata prompt.
MetadataReplies ==
    {<<"{", "mGood", "}">>,
     <<"x", " ", "{", "mGood", "}", " ", "x">>,
     <<"FENCE", "{", "mOut", "}", "FENCE">>,
     <<"{", "mNoCat", "}">>,
     <<"{", "mNoDesc", "}">>,
     <<"{", "mEmptyDesc", "}">>,
     <<"{", "mNumDesc", "}">>,
     <<"{", "mGood", "}", "x", "}">>,
     <<"x">>,
     <<"null">>,
     <<>>}

\* Replies of the service to the blog-post prompt.
PostReplies ==
    {<<"x">>,
     <<" ", "x", " ">>,
     <<"FENCE", "x", "FENCE">>,
     <<>>}

\* String.prototype.trim.
RECURSIVE TrimLeft(_)
TrimLeft(t) == IF t # <<>> /\ IsWhitespace(Head(t)) THEN TrimLeft(Tail(t)) ELSE t
RECURSIVE TrimRight(_)
TrimRight(t) ==
    IF t # <<>> /\ IsWhitespace(t[Len(t)]) THEN TrimRight(SubSeq(t, 1, Len(t) - 1)) ELSE t
Trim(t) == TrimRight(TrimLeft(t))

\* content.match(/\{[\s\S]*\}/): the text from the first "{" to the last "}",
\* or no match when no "}" follows the first "{".
Positions(t, tok) == {p \in 1..Len(t) : t[p] = tok}
Min(S) == CHOOSE m \in S : \A o \in S : m <= o
Max(S) == CHOOSE m \in S : \A o \in S : m >= o
JsonMatch(t) ==
    LET opens == Positions(t, "{")
        closes == Positions(t, "}")
    IN  IF opens # {} /\ closes # {} /\ Max(closes) > Min(opens)
        THEN [matched |-> TRUE, text |-> SubSeq(t, Min(opens), Max(closes))]
        ELSE [matched |-> FALSE, text |-> <<>>]

\* JSON.parse: whitespace around the tokens is skipped; the text must be one
\* JSON value, here an object (with or without members) or null.
JsonParse(t) ==
    LET s == SelectSeq(t, LAMBDA tok : ~IsWhitespace(tok))
    IN  IF s = <<"{", "}">> THEN [ok |-> TRUE, value |-> JsObject(Undefined, Undefined)]
        ELSE IF Len(s) = 3 /\ s[1] = "{" /\ s[3] = "}" /\ s[2] \in DOMAIN Members
        THEN [ok |-> TRUE,
              value |-> JsObject(Members[s[2]].category, Members[s[2]].description_fr)]
        ELSE IF s = <<"null">> THEN [ok |-> TRUE, value |-> JsNull]
        ELSE [ok |-> FALSE, value |-> JsUndefined]

\* -------------------------------------------------------------- cache keys

\* Decimal digits of a number, as String(n) writes them.
Digit(d) == CASE d = 0 -> "0" [] d = 1 -> "1" [] d = 2 -> "2" [] d = 3 -> "3"
              [] d = 4 -> "4" [] d = 5 -> "5" [] d = 6 -> "6" [] d = 7 -> "7"
              [] d = 8 -> "8" [] d = 9 -> "9"
RECURSIVE Digits(_)
Digits(n) == IF n < 10 THEN <<Digit(n)>> ELSE Append(Digits(n \div 10), Digit(n % 10))

\* The post key built with the prefix of the metadata key.
PostKeySamePrefix(id) == <<"m", "e", "t", "a", "_">> \o Digits(id)

\* `meta_${repo.id}` and `post_${release.id}`.
MetaKey(id) == <<"m", "e", "t", "a", "_">> \o Digits(id)
PostKey(id) == <<"p", "o", "s", "t", "_">> \o Digits(id)

\* cache[key]: undefined for a key the mapping does not hold.
CacheGet(c, key) == IF key \in DOMAIN c THEN c[key] ELSE JsUndefined

\* cache[key] = value.
CacheSet(c, key, value) == [k \in DOMAIN c \cup {key} |-> IF k = key THEN value ELSE c[k]]

EmptyCache == [k \in {} |-> JsUndefined]

\* A cache file an earlier run left behind: the metadata of alpha and the post
\* of its release 1, as the service gave them, and the null that the reply
\* "null" left as the metadata of beta.
EarlierCache ==
    (MetaKey(1) :> JsObject("IA", "Une description")) @@
        (PostKey(1) :> JsString(<<" ", "x", " ">>)) @@
        (MetaKey(2) :> JsNull)

CacheFile(s, m) == [state |-> s, mapping |-> m]
CacheFiles ==
    {CacheFile("missing", EmptyCache), CacheFile("corrupt", EmptyCache)} \cup
    {CacheFile("mapping", EarlierCache)}

\* ------------------------------------------------------ generative service

\* What one request to the service does: the HTTP status is not ok, the
\* request or the reading of the answer throws, or the answer carries content.
PoeOutcome(s, t) == [status |-> s, content |-> t]
PoeOutcomes(replies) ==
    {PoeOutcome("http_error", <<>>), PoeOutcome("throws", <<>>)} \cup
    {PoeOutcome("ok", t) : t \in replies}

\* poeApiCall without the test of the key.
PoeApiCallNoKeyTest(key, outcome) ==
    IF outcome.status = "ok" THEN JsString(outcome.content) ELSE JsNull

\* poeApiCall: null without a key, on a status that is not ok and on any
\* exception; otherwise the content of the first choice.
PoeApiCall(key, outcome) ==
    IF ~key THEN JsNull
    ELSE IF outcome.status = "ok" THEN JsString(outcome.content)
    ELSE JsNull

\* -------------------------------------------------------------- classifier

\* { category: 'Outils', description_fr: repo.description }
FallbackMetadata(repo) == JsObject("Outils", repo.description)

\* The try block of getProjectMetadata: the JSON value parsed from the
\* content, and whether parsing threw.
ParseMetadata(text) ==
    LET m == JsonMatch(text)
    IN  IF m.matched THEN JsonParse(m.text) ELSE JsonParse(text)

\* getProjectMetadata without the line `cache[cacheKey] = json`.
GetProjectMetadataNoStore(repo, c, content) ==
    LET cacheKey == MetaKey(repo.id)
        parsed == ParseMetadata(content.text)
    IN  IF Truthy(CacheGet(c, cacheKey))
        THEN [result |-> CacheGet(c, cacheKey), cache |-> c, asked |-> FALSE]
        ELSE IF Truthy(content) /\ parsed.ok
        THEN [result |-> parsed.value, cache |-> c, asked |-> TRUE]
        ELSE [result |-> FallbackMetadata(repo), cache |-> c, asked |-> TRUE]

\* getProjectMetadata(repo, model, cache), given what poeApiCall returns when
\* it is asked: the value returned, the cache afterwards, and whether
\* poeApiCall was asked.
GetProjectMetadata(repo, c, content) ==
    LET cacheKey == MetaKey(repo.id)
        parsed == ParseMetadata(content.text)
    IN  IF Truthy(CacheGet(c, cacheKey))
        THEN [result |-> CacheGet(c, cacheKey), cache |-> c, asked |-> FALSE]
        ELSE IF ~Truthy(content)
        THEN [result |-> FallbackMetadata(repo), cache |-> c, asked |-> TRUE]
        ELSE IF parsed.ok
        THEN [result |-> parsed.value, cache |-> CacheSet(c, cacheKey, parsed.value),
              asked |-> TRUE]
        ELSE [result |-> FallbackMetadata(repo), cache |-> c, asked |-> TRUE]

\* ---------------------------------------------------------------- narrator

\* getReleasePost without the line `if (cache[cacheKey]) return cache[cacheKey]`.
GetReleasePostNoCacheTest(release, c, content) ==
    LET cacheKey == PostKey(release.id)
    IN  IF Truthy(content)
        THEN [result |-> content, cache |-> CacheSet(c, cacheKey, content), asked |-> TRUE]
        ELSE [result |-> JsNull, cache |-> c, asked |-> TRUE]

\* getReleasePost(repo, release, model, cache), given what poeApiCall returns
\* when it is asked.
GetReleasePost(release, c, content) ==
    LET cacheKey == PostKey(release.id)
    IN  IF Truthy(CacheGet(c, cacheKey))
        THEN [result |-> CacheGet(c, cacheKey), cache |-> c, asked |-> FALSE]
        ELSE IF Truthy(content)
        THEN [result |-> content, cache |-> CacheSet(c, cacheKey, content), asked |-> TRUE]
        ELSE [result |-> JsNull, cache |-> c, asked |-> TRUE]

\* --------------------------------------------------------------- documents

NoRelease == Release(0, Null)

\* One element of blogPosts.
BlogPost(release, content) == [version |-> release.tag_name, content |-> content.text]

\* A property read from aiMeta.
MetaField(meta, name) ==
    IF meta.kind = "object" THEN (IF name = "category" THEN meta.category
                                  ELSE meta.description_fr)
    ELSE Undefined

\* generateBlogPage throws when it reads a property of null.
BlogPageThrows(meta) == meta.kind \in {"null", "undefined"}

\* generateBlogPage(repo, posts, aiMeta): what the page shows.
GenerateBlogPage(repo, posts, meta) ==
    [title |-> repo.name,
     description |-> MetaField(meta, "description_fr"),
     category |-> MetaField(meta, "category"),
     posts |-> posts]

\* buildCard throws when aiMeta is null or aiMeta.category is not a string
\* (aiMeta.category.toLowerCase()).
BuildCardThrows(meta) ==
    \/ meta.kind \in {"null", "undefined"}
    \/ MetaField(meta, "category") \in {Undefined, Null, NotAString}

\* buildCard(repo, release, aiMeta): what the card shows.
BuildCard(repo, release, meta) ==
    [name |-> repo.name,
     category |-> MetaField(meta, "category"),
     version |-> release.tag_name,
     description |->
         IF TruthyField(MetaField(meta, "description_fr"))
         THEN MetaField(meta, "description_fr")
         ELSE IF TruthyField(repo.description) THEN repo.description
         ELSE "Projet personnel",
     link |-> release # NoRelease]

\* generateIndexPage(projects): the filter buttons and the cards.
GenerateIndexPage(ps) ==
    [categories |-> {MetaField(ps[n].aiMeta, "category") : n \in 1..Len(ps)},
     cards |-> [n \in 1..Len(ps) |-> BuildCard(ps[n].repo, ps[n].latestRelease, ps[n].aiMeta)]]

NoIndex == [categories |-> {}, cards |-> <<>>]

\* ------------------------------------------------------------------- state

VARIABLES
    pc,          \* where main() stands: "load", "model", "repos", "releases",
                 \* "meta", "posts", "save", "index", "done", "aborted"
    apiKey,      \* POE_API_KEY is set
    cacheFile,   \* ai_cache.json on disk
    cache,       \* the mapping main() loaded and passes around
    model,       \* the model identifier
    repos,       \* the listing after the fork filter
    i,           \* index in repos of the repository being processed
    releases,    \* its releases: [iterable, list]
    j,           \* index in releases.list of the next release to narrate
    aiMeta,      \* its metadata
    blogPosts,   \* its blog posts so far
    projects,    \* the projects pushed so far
    blogPages,   \* the blog-<name>.html files this run wrote, by repository name
    indexDoc,    \* index.html: [written, page]
    poeCalls,    \* requests sent to the generative service
    metaCall,    \* the last getProjectMetadata call: [made, asked, content]
    narrated,    \* the getReleasePost calls for releases 1..j-1:
                 \* [asked, content, result]
    produced,    \* the cache entries this run wrote, by key
    failure,     \* the step whose exception ended the run, "" if none
    inFlight,    \* the requests sent to the outside and not yet answered
    failedFetches \* the ids of the repositories whose release fetch threw

vars == <<pc, apiKey, cacheFile, cache, model, repos, i, releases, j, aiMeta,
          blogPosts, projects, blogPages, indexDoc, poeCalls, metaCall, narrated,
          produced, failure, inFlight, failedFetches>>

NoCall == [made |-> FALSE, asked |-> FALSE, content |-> JsUndefined]
NoReleases == [iterable |-> TRUE, list |-> <<>>]
NoPages == [n \in {} |-> GenerateBlogPage(RepoAlpha, <<>>, JsUndefined)]

Init ==
    /\ pc = "load"
    /\ apiKey \in BOOLEAN
    /\ cacheFile \in CacheFiles
    /\ cache = EmptyCache
    /\ model = Undefined
    /\ repos = <<>>
    /\ i = 1
    /\ releases = NoReleases
    /\ j = 1
    /\ aiMeta = JsUndefined
    /\ blogPosts = <<>>
    /\ projects = <<>>
    /\ blogPages = NoPages
    /\ indexDoc = [written |-> FALSE, page |-> NoIndex]
    /\ poeCalls = 0
    /\ metaCall = NoCall
    /\ narrated = <<>>
    /\ produced = EmptyCache
    /\ failure = ""
    /\ inFlight = {}
    /\ failedFetches = {}

\* main().catch(console.error): the rejection is logged and the run is over.
Abort(step) == pc' = "aborted" /\ failure' = step
Continue(next) == pc' = next /\ UNCHANGED failure

\* A request to the outside: the model list, the repository listing, the
\* releases of a repository, the metadata or a post from the generative service.
Request(kind, id) == [kind |-> kind, id |-> id]
NoRequest == Request("none", <<>>)

\* poeApiCall fetches only when it has a key and getProjectMetadata or
\* getReleasePost did not return from the cache.
PoeRequest(kind, key) ==
    IF apiKey /\ ~Truthy(CacheGet(cache, key)) THEN Request(kind, key) ELSE NoRequest

\* The request whose answer main() awaits at its position, if any.
NextRequest ==
    IF pc = "model" THEN (IF apiKey THEN Request("models", <<>>) ELSE NoRequest)
    ELSE IF pc = "repos" THEN Request("repos", <<>>)
    ELSE IF pc = "releases" THEN Request("releases", Digits(repos[i].id))
    ELSE IF pc = "meta" THEN PoeRequest("poe", MetaKey(repos[i].id))
    ELSE IF pc = "posts" /\ releases.iterable /\ j <= Len(releases.list)
    THEN PoeRequest("poe", PostKey(releases.list[j].id))
    ELSE NoRequest

\* The requests sent were the narrations of a repository started together,
\* as with Promise.all over the releases.
SentRequestsTogether ==
    IF pc = "posts" /\ releases.iterable
    THEN {PoeRequest("poe", PostKey(releases.list[n].id)) : n \in j..Len(releases.list)}
             \ {NoRequest}
    ELSE {NextRequest}

\* The requests main() sends before it suspends: the one it awaits.
SentRequests == {NextRequest}

\* fetch(...) is called and main() is suspended on the await.
Send ==
    /\ NextRequest # NoRequest
    /\ NextRequest \notin inFlight
    /\ inFlight' = inFlight \cup SentRequests
    /\ UNCHANGED <<pc, apiKey, cacheFile, cache, model, repos, i, releases, j, aiMeta,
                   blogPosts, projects, blogPages, indexDoc, poeCalls, metaCall,
                   narrated, produced, failure, failedFetches>>

\* The awaited answer arrives and main() resumes; a step that awaits nothing
\* goes on at once.
Resume ==
    IF NextRequest = NoRequest
    THEN UNCHANGED inFlight
    ELSE NextRequest \in inFlight /\ inFlight' = inFlight \ {NextRequest}

\* loadCache(): JSON.parse throws on a file that is not JSON.
LoadCacheThrows(file) == file.state = "corrupt"
LoadCacheResult(file) == IF file.state = "mapping" THEN file.mapping ELSE EmptyCache

LoadCache ==
    /\ pc = "load"
    /\ IF LoadCacheThrows(cacheFile)
       THEN Abort("loadCache") /\ UNCHANGED cache
       ELSE Continue("model") /\ cache' = LoadCacheResult(cacheFile)
    /\ UNCHANGED <<apiKey, cacheFile, model, repos, i, releases, j, aiMeta, blogPosts,
                   projects, blogPages, indexDoc, poeCalls, metaCall, narrated, produced,
                   inFlight, failedFetches>>

\* getLatestSonnetModel(): 'gpt-4o' without a key, else the newest Sonnet of
\* the model list, or the known identifier when the list cannot be had.
GetLatestSonnetModel(listed) ==
    /\ pc = "model"
    /\ model' = IF ~apiKey THEN "gpt-4o"
                ELSE IF listed THEN "sonnetModels[0].id"
                ELSE "Claude-3.5-Sonnet"
    /\ Continue("repos")
    /\ Resume
    /\ UNCHANGED <<apiKey, cacheFile, cache, repos, i, releases, j, aiMeta, blogPosts,
                   projects, blogPages, indexDoc, poeCalls, metaCall, narrated, produced,
                   failedFetches>>

\* The filter with its test lost: every repository is kept.
ForkFilterKeepsAll(listing) == SelectSeq(listing, LAMBDA r : TRUE)

\* repos.filter(r => !r.fork)
ForkFilter(listing) == SelectSeq(listing, LAMBDA r : ~r.fork)

\* The position main() reaches once repository n - 1 is done.
LoopHead(rs, n) == IF n <= Len(rs) THEN "releases" ELSE "save"

\* let repos = await apiGet(...): the listing of the repositories arrives.
FetchRepos(listing) ==
    /\ pc = "repos"
    /\ Resume
    /\ repos' = listing
    /\ Continue("filter")
    /\ UNCHANGED <<apiKey, cacheFile, cache, model, i, releases, j, aiMeta, blogPosts,
                   projects, blogPages, indexDoc, poeCalls, metaCall, narrated, produced,
                   failedFetches>>

\* repos = repos.filter(r => !r.fork), and the loop starts.
FilterForks ==
    /\ pc = "filter"
    /\ repos' = ForkFilter(repos)
    /\ i' = 1
    /\ Continue(LoopHead(ForkFilter(repos), 1))
    /\ UNCHANGED <<apiKey, cacheFile, cache, model, releases, j, aiMeta, blogPosts,
                   projects, blogPages, indexDoc, poeCalls, metaCall, narrated, produced,
                   inFlight, failedFetches>>

\* apiGet throws on the listing: nothing catches it in main().
FetchReposFails ==
    /\ pc = "repos"
    /\ Abort("listing")
    /\ Resume
    /\ UNCHANGED <<apiKey, cacheFile, cache, model, repos, i, releases, j, aiMeta,
                   blogPosts, projects, blogPages, indexDoc, poeCalls, metaCall,
                   narrated, produced, failedFetches>>

\* 1. Get Releases: a list, a JSON value that is no list, or an error that
\* the try block swallows (releases stays []).
ReleaseAnswers(repo) ==
    {[iterable |-> TRUE, list |-> l] : l \in ReleaseLists(repo)} \cup
    {[iterable |-> FALSE, list |-> <<>>]}

FetchReleases(answer) ==
    /\ pc = "releases"
    /\ Resume
    /\ releases' = answer
    /\ Continue("meta")
    /\ UNCHANGED <<apiKey, cacheFile, cache, model, repos, i, j, aiMeta, blogPosts,
                   projects, blogPages, indexDoc, poeCalls, metaCall, narrated, produced,
                   failedFetches>>

\* The release fetch without its try/catch: the error ends the run.
FetchReleasesFailsUncaught ==
    /\ pc = "releases"
    /\ Resume
    /\ failedFetches' = failedFetches \cup {repos[i].id}
    /\ Abort("fetch")
    /\ UNCHANGED <<apiKey, cacheFile, cache, model, repos, i, releases, j, aiMeta,
                   blogPosts, projects, blogPages, indexDoc, poeCalls, metaCall,
                   narrated, produced>>

\* apiGet throws and the catch block leaves releases = [].
FetchReleasesFails ==
    /\ pc = "releases"
    /\ Resume
    /\ releases' = NoReleases
    /\ failedFetches' = failedFetches \cup {repos[i].id}
    /\ Continue("meta")
    /\ UNCHANGED <<apiKey, cacheFile, cache, model, repos, i, j, aiMeta, blogPosts,
                   projects, blogPages, indexDoc, poeCalls, metaCall, narrated, produced>>

\* The entries of after that before does not hold with the same value.
Written(before, after) ==
    [k \in {q \in DOMAIN after : q \notin DOMAIN before \/ before[q] # after[q]} |-> after[k]]

\* What a call is remembered by: whether poeApiCall was asked, what it
\* returned, and what the caller got.
CallRecord(r, content) ==
    [asked |-> r.asked, content |-> IF r.asked THEN content ELSE JsUndefined,
     result |-> r.result]

\* 2. Get AI Metadata.
Classify(outcome) ==
    LET content == PoeApiCall(apiKey, outcome)
        r == GetProjectMetadata(repos[i], cache, content)
    IN  /\ pc = "meta"
        /\ Resume
        /\ aiMeta' = r.result
        /\ cache' = r.cache
        /\ produced' = Written(cache, r.cache) @@ produced
        /\ poeCalls' = IF r.asked /\ apiKey THEN poeCalls + 1 ELSE poeCalls
        /\ metaCall' = [made |-> TRUE, asked |-> r.asked,
                        content |-> IF r.asked THEN content ELSE JsUndefined]
        /\ blogPosts' = <<>>
        /\ narrated' = <<>>
        /\ j' = 1
        /\ Continue("posts")
        /\ UNCHANGED <<apiKey, cacheFile, model, repos, i, releases, projects,
                       blogPages, indexDoc, failedFetches>>

\* for (const release of releases) throws on a value that is not iterable.
ReleasesNotIterable ==
    /\ pc = "posts"
    /\ ~releases.iterable
    /\ Abort("releases")
    /\ UNCHANGED <<apiKey, cacheFile, cache, model, repos, i, releases, j, aiMeta,
                   blogPosts, projects, blogPages, indexDoc, poeCalls, metaCall,
                   narrated, produced,
                   inFlight, failedFetches>>

\* The push without the test `if (postContent)`.
PushPostAlways(posts, release, postContent) == Append(posts, BlogPost(release, postContent))

\* if (postContent) blogPosts.push({...})
PushPost(posts, release, postContent) ==
    IF Truthy(postContent) THEN Append(posts, BlogPost(release, postContent)) ELSE posts

\* 3. Generate Blog Posts for releases: one turn of the loop.
Narrate(outcome) ==
    LET content == PoeApiCall(apiKey, outcome)
        r == GetReleasePost(releases.list[j], cache, content)
    IN  /\ pc = "posts"
        /\ releases.iterable
        /\ j <= Len(releases.list)
        /\ Resume
        /\ cache' = r.cache
        /\ produced' = Written(cache, r.cache) @@ produced
        /\ poeCalls' = IF r.asked /\ apiKey THEN poeCalls + 1 ELSE poeCalls
        /\ narrated' = Append(narrated, CallRecord(r, content))
        /\ blogPosts' = PushPost(blogPosts, releases.list[j], r.result)
        /\ j' = j + 1
        /\ UNCHANGED <<pc, failure, apiKey, cacheFile, model, repos, i, releases, aiMeta,
                       projects, blogPages, indexDoc, metaCall, failedFetches>>

\* releases.length > 0 ? releases[0] : null
LatestRelease(rel) == IF Len(rel.list) > 0 THEN rel.list[1] ELSE NoRelease

Project(repo, latestRelease, meta) ==
    [repo |-> repo, latestRelease |-> latestRelease, aiMeta |-> meta]

\* Create Blog Page if posts exist.
WritesBlogPage(posts) == Len(posts) > 0

\* The end of one turn of the repository loop: the blog page, if any, is
\* written, the project is pushed, and the next repository is taken up.
FinishRepo(writeOk) ==
    /\ pc = "posts"
    /\ releases.iterable
    /\ j > Len(releases.list)
    /\ IF WritesBlogPage(blogPosts) /\ (BlogPageThrows(aiMeta) \/ ~writeOk)
       THEN /\ Abort("page")
            /\ UNCHANGED <<blogPages, projects, i, releases, j, aiMeta, blogPosts,
                           metaCall, narrated>>
       ELSE /\ blogPages' =
                   IF WritesBlogPage(blogPosts)
                   THEN (repos[i].name :> GenerateBlogPage(repos[i], blogPosts, aiMeta))
                            @@ blogPages
                   ELSE blogPages
            /\ projects' = Append(projects, Project(repos[i], LatestRelease(releases), aiMeta))
            /\ i' = i + 1
            /\ Continue(LoopHead(repos, i + 1))
            /\ releases' = NoReleases
            /\ j' = 1
            /\ aiMeta' = JsUndefined
            /\ blogPosts' = <<>>
            /\ metaCall' = NoCall
            /\ narrated' = <<>>
    /\ UNCHANGED <<apiKey, cacheFile, cache, model, repos, indexDoc, poeCalls, produced,
                   inFlight, failedFetches>>

\* saveCache(cache): the file is rewritten, or the write throws.
SaveCache(writeOk) ==
    /\ pc = "save"
    /\ IF writeOk
       THEN Continue("index") /\ cacheFile' = CacheFile("mapping", cache)
       ELSE Abort("saveCache") /\ UNCHANGED cacheFile
    /\ UNCHANGED <<apiKey, cache, model, repos, i, releases, j, aiMeta, blogPosts,
                   projects, blogPages, indexDoc, poeCalls, metaCall, narrated, produced,
                   inFlight, failedFetches>>

\* Generate Main Index.
GenerateIndex(writeOk) ==
    /\ pc = "index"
    /\ IF writeOk /\ \A n \in 1..Len(projects) : ~BuildCardThrows(projects[n].aiMeta)
       THEN /\ Continue("done")
            /\ indexDoc' = [written |-> TRUE, page |-> GenerateIndexPage(projects)]
       ELSE Abort("index") /\ UNCHANGED indexDoc
    /\ UNCHANGED <<apiKey, cacheFile, cache, model, repos, i, releases, j, aiMeta,
                   blogPosts, projects, blogPages, poeCalls, metaCall, narrated, produced,
                   inFlight, failedFetches>>

Next ==
    \/ LoadCache
    \/ \E listed \in BOOLEAN : GetLatestSonnetModel(listed)
    \/ Send
    \/ \E listing \in Listings : FetchRepos(listing)
    \/ FilterForks
    \/ FetchReposFails
    \/ pc = "releases" /\ \E answer \in ReleaseAnswers(repos[i]) : FetchReleases(answer)
    \/ FetchReleasesFails
    \/ \E outcome \in PoeOutcomes(MetadataReplies) : Classify(outcome)
    \/ ReleasesNotIterable
    \/ \E outcome \in PoeOutcomes(PostReplies) : Narrate(outcome)
    \/ \E writeOk \in BOOLEAN : FinishRepo(writeOk)
    \/ \E writeOk \in BOOLEAN : SaveCache(writeOk)
    \/ \E writeOk \in BOOLEAN : GenerateIndex(writeOk)

Spec == Init /\ [][Next]_vars

\* ------------------------------------------------------------------ claims

HasPrefix(key, prefix) == Len(key) >= Len(prefix) /\ SubSeq(key, 1, Len(prefix)) = prefix
IsMetaKey(key) == HasPrefix(key, <<"m", "e", "t", "a", "_">>)
IsPostKey(key) == HasPrefix(key, <<"p", "o", "s", "t", "_">>)

\* The tags a metadata value carries: its category, when it has one.
Tags(meta) ==
    IF meta.kind = "object" /\ meta.category \notin {Undefined, Null, NotAString}
    THEN {meta.category}
    ELSE {}
TagsClosed(meta) == Tags(meta) # {} /\ Tags(meta) \subseteq Categories

\* C1: the metadata getProjectMetadata returns, and every metadata entry the
\* run writes to the cache, carries a non-empty set of tags, all of the five
\* categories.
C1_TagVocabularyClosure ==
    /\ metaCall.made => TagsClosed(aiMeta)
    /\ \A key \in DOMAIN produced : IsMetaKey(key) => TagsClosed(produced[key])

\* The service failed, returned no content, or returned content that does not
\* parse.
NothingUsable(content) == ~Truthy(content) \/ ~ParseMetadata(content.text).ok

\* C2: when the metadata is not cached and the service gives nothing usable,
\* getProjectMetadata returns the tag 'Outils' and, as description, the
\* repository's description when it has one, else its name.
C2_FallbackTotality ==
    metaCall.made /\ metaCall.asked /\ NothingUsable(metaCall.content)
        => aiMeta = JsObject("Outils", IF repos[i].description # Null
                                       THEN repos[i].description
                                       ELSE repos[i].name)

\* A second getProjectMetadata call on the repository just classified, with
\* the cache as it is now, whatever the service would do.
SecondCalls ==
    {GetProjectMetadata(repos[i], cache, PoeApiCall(key, outcome)) :
        key \in BOOLEAN, outcome \in PoeOutcomes(MetadataReplies)}

FirstCallStored ==
    \/ ~metaCall.asked
    \/ /\ Truthy(metaCall.content)
       /\ ParseMetadata(metaCall.content.text).ok
       /\ Truthy(ParseMetadata(metaCall.content.text).value)

C4_SkipAndContinue == failure \notin {"releases", "page"}

\* C5: when a run ends, also one that a failure in the repository loop ended,
\* every cache entry the run produced is in the cache file.
C5_NoLostCacheEntries ==
    pc \in {"done", "aborted"} /\ failure # "saveCache" =>
        \A key \in DOMAIN produced :
            /\ cacheFile.state = "mapping"
            /\ CacheGet(cacheFile.mapping, key) = produced[key]

\* C6: loading never ends the run, and a missing or corrupt cache file loads
\* as the empty cache.
C6_CacheLoadTotal ==
    /\ failure # "loadCache"
    /\ pc = "model" /\ cacheFile.state \in {"missing", "corrupt"} => cache = EmptyCache

\* C7: the description of the metadata getProjectMetadata returns is a
\* non-empty string.
C7_DescriptionNonEmpty ==
    metaCall.made =>
        /\ aiMeta.kind = "object"
        /\ aiMeta.description_fr \notin {Undefined, Null, NotAString, ""}

\* A narration succeeded: the cache held the post, or the service gave content.
Succeeded(call) == ~call.asked \/ Truthy(call.content)

\* The posts of the releases whose narration succeeded, in release order.
RECURSIVE Successes(_, _)
Successes(list, calls) ==
    IF calls = <<>> THEN <<>>
    ELSE LET n == Len(calls)
             before == Successes(list, SubSeq(calls, 1, n - 1))
         IN  IF Succeeded(calls[n])
             THEN Append(before, [version |-> list[n].tag_name,
                                  content |-> calls[n].result.text])
             ELSE before

\* C8: every narration, failed or not, leaves the loop going with the next
\* release, and the blog posts are those of the releases narrated with
\* success, in order; when the repository is done its blog page holds exactly
\* these posts, and no page is written when there are none.
C8_Step ==
    /\ pc = "posts" /\ Len(narrated') = Len(narrated) + 1 =>
          /\ pc' = "posts"
          /\ j' = j + 1
          /\ blogPosts' = Successes(releases.list, narrated')
    /\ pc = "posts" /\ pc' \in {"releases", "save"} =>
          /\ Len(narrated) = Len(releases.list)
          /\ IF Successes(releases.list, narrated) # <<>>
             THEN /\ repos[i].name \in DOMAIN blogPages'
                  /\ blogPages'[repos[i].name].posts = Successes(releases.list, narrated)
             ELSE repos[i].name \notin DOMAIN blogPages'
C8_NarrationPartialFailure == [][C8_Step]_vars

\* C8 witness: a page was written with one post, which is not the post of the
\* repository's first release: the first narration failed, the second did not.
C8_Witness ==
    \E n \in 1..Len(projects) :
        /\ projects[n].repo.name \in DOMAIN blogPages
        /\ Len(blogPages[projects[n].repo.name].posts) = 1
        /\ blogPages[projects[n].repo.name].posts[1].version
               # projects[n].latestRelease.tag_name

\* C9: a card of the index links to the repository's blog page exactly when
\* the run wrote that page.
C9_IndexLinkMatchesPage ==
    indexDoc.written =>
        \A n \in 1..Len(indexDoc.page.cards) :
            indexDoc.page.cards[n].link <=> indexDoc.page.cards[n].name \in DOMAIN blogPages

\* A fragment is not empty, has no whitespace at either end and no code fence
\* around it.
Normalized(t) ==
    /\ t # <<>>
    /\ Trim(t) = t
    /\ Head(t) # "FENCE"
    /\ t[Len(t)] # "FENCE"

\* C10: every fragment getReleasePost returns and every fragment it stores is
\* non-empty, trimmed and without an enclosing code fence.
C10_NarratorNormalized ==
    /\ \A n \in 1..Len(narrated) :
          Truthy(narrated[n].result) => Normalized(narrated[n].result.text)
    /\ \A key \in DOMAIN produced : IsPostKey(key) => Normalized(produced[key].text)

\* The repositories of the projects, in order.
ProjectRepos(ps) == [n \in 1..Len(ps) |-> ps[n].repo]

\* after holds exactly the repositories of before that are no forks, in the
\* order before has them.
NonForksInOrder(before, after) ==
    /\ \A n \in 1..Len(after) : ~after[n].fork
    /\ \A n \in 1..Len(before) :
          ~before[n].fork => \E m \in 1..Len(after) : after[m] = before[n]
    /\ \A m \in 1..Len(after) : \E n \in 1..Len(before) : before[n] = after[m]
    /\ \A m1, m2 \in 1..Len(after) :
          m1 < m2 => \E n1, n2 \in 1..Len(before) :
                        n1 < n2 /\ before[n1] = after[m1] /\ before[n2] = after[m2]
    /\ \A m1, m2 \in 1..Len(after) : m1 # m2 => after[m1] # after[m2]

\* C11: the filter keeps exactly the repositories of the listing that are no
\* forks, in their order; the list is not touched afterwards; no fork has its
\* releases fetched, is classified or narrated; every turn of the loop that
\* ends adds the one project of its repository, with its one metadata value;
\* and once the loop is over the projects are those of the filtered list, one
\* each, in order.
C11_Step ==
    /\ pc = "filter" => NonForksInOrder(repos, repos')
    /\ pc \notin {"repos", "filter"} => repos' = repos
    /\ pc' \in {"releases", "meta", "posts"} => i' <= Len(repos') /\ ~repos'[i'].fork
    /\ projects' # projects =>
          /\ pc = "posts" /\ metaCall.made
          /\ Len(projects) = i - 1
          /\ projects' = Append(projects, Project(repos[i], LatestRelease(releases), aiMeta))
          /\ i' = i + 1
    /\ pc' \in {"save", "index", "done"} => ProjectRepos(projects') = repos'
C11_ResultListShape == [][C11_Step]_vars

\* C11 witness: a run is done with the projects of both repositories that are
\* no forks.
C11_Witness ==
    /\ pc = "done"
    /\ Len(projects) = Cardinality({r \in AllRepos : ~r.fork})
    /\ ProjectRepos(projects) = repos

\* C12: a repository whose release fetch threw is processed with the empty
\* release list: while it is the current one it awaits its classification or
\* is classified, with no post and no page; afterwards it is a project with
\* no latest release and no blog page; the run is never ended on it, and once
\* the loop is over every repository of the list is a project.
C12_ReleaseFetchFailureIsolated ==
    /\ \A id \in failedFetches :
          \/ /\ pc \in {"meta", "posts"}
             /\ i <= Len(repos) /\ repos[i].id = id
             /\ releases = NoReleases /\ blogPosts = <<>>
             /\ pc = "posts" => metaCall.made
             /\ repos[i].name \notin DOMAIN blogPages
          \/ \E n \in 1..Len(projects) :
                /\ projects[n].repo.id = id
                /\ projects[n].latestRelease = NoRelease
                /\ projects[n].aiMeta # JsUndefined
                /\ projects[n].repo.name \notin DOMAIN blogPages
    /\ pc \in {"save", "index", "done"} => Len(projects) = Len(repos)

\* C12 witness: a run is done; the release fetch of its first repository
\* threw, and its second repository has its blog page.
C12_Witness ==
    /\ pc = "done"
    /\ Len(projects) > 1
    /\ projects[1].repo.id \in failedFetches
    /\ projects[2].repo.name \in DOMAIN blogPages

\* Every release of every repository, whichever repository it is passed with.
AllReleases == UNION {ReleasesOf(repo) : repo \in AllRepos}

\* What poeApiCall can return.
PoeReturns == {PoeApiCall(key, outcome) : key \in BOOLEAN, outcome \in PoeOutcomes(PostReplies)}

\* C13: with the cache as it is at any moment of a run, getReleasePost on a
\* release whose post key the cache holds returns the cached fragment, asks
\* nothing and leaves the cache alone; on one it does not hold, a failed or
\* empty answer gives null and leaves the cache alone.  And of the calls the
\* run made: a call that did not ask returned the cached fragment, which the
\* run did not write; a call that asked and got nothing returned null and
\* left no entry.
C13_NarratorCacheHit ==
    /\ \A release \in AllReleases, content \in PoeReturns :
          LET r == GetReleasePost(release, cache, content)
              key == PostKey(release.id)
          IN  /\ key \in DOMAIN cache =>
                    r.result = cache[key] /\ ~r.asked /\ r.cache = cache
              /\ key \notin DOMAIN cache /\ ~Truthy(content) =>
                    r.result = JsNull /\ r.asked /\ r.cache = cache
    /\ \A n \in 1..Len(narrated) :
          LET key == PostKey(releases.list[n].id)
          IN  /\ ~narrated[n].asked =>
                    /\ narrated[n].result = CacheGet(cache, key)
                    /\ Truthy(narrated[n].result)
                    /\ key \notin DOMAIN produced
              /\ narrated[n].asked /\ ~Truthy(narrated[n].content) =>
                    narrated[n].result = JsNull /\ key \notin DOMAIN cache

\* C13 witness: of two narrations of a repository, one returned from the
\* cache and one failed.
C13_Witness ==
    /\ Len(narrated) = 2
    /\ \E n \in 1..2 : ~narrated[n].asked
    /\ \E n \in 1..2 : narrated[n].asked /\ ~Truthy(narrated[n].content)

\* C14: while repositories are still being processed, and in a run that an
\* exception ended before or during their processing, no document of the run
\* is written: no blog page and no index.
C14_DocumentsAfterLoop ==
    \/ pc \in {"load", "model", "repos", "filter", "releases", "meta", "posts"}
    \/ failure \in {"loadCache", "listing", "releases", "page"}
    => blogPages = NoPages /\ ~indexDoc.written

\* No metadata key is a post key, for equal or different identifiers.
KeysDisjoint == \A r, s \in 0..MaxId : MetaKey(r) # PostKey(s)

\* C15: the metadata key of an identifier is never the post key of an
\* identifier, the same or another; every key of the cache is of one kind only
\* and holds a value of its kind; a metadata read never returns a post and a
\* post read never returns metadata.
C15_KeyNamespacing ==
    /\ KeysDisjoint
    /\ \A key \in DOMAIN cache :
          /\ IsMetaKey(key) # IsPostKey(key)
          /\ IsMetaKey(key) => cache[key].kind \in {"object", "null"}
          /\ IsPostKey(key) => cache[key].kind = "string"
    /\ metaCall.made /\ ~metaCall.asked => aiMeta.kind = "object"
    /\ \A n \in 1..Len(narrated) :
          Truthy(narrated[n].result) => narrated[n].result.kind = "string"

\* C15 witness: the run wrote the metadata of repository 1 and the post of
\* release 1.
C15_Witness ==
    /\ MetaKey(1) \in DOMAIN produced
    /\ PostKey(1) \in DOMAIN produced
    /\ produced[MetaKey(1)] # produced[PostKey(1)]

\* C16 as a step of the run: at most one request is in flight, the one main()
\* awaits; a step changes at most one entry of the cache; the next repository
\* is taken up only when the releases of this one are all narrated, nothing is
\* in flight and its project is pushed; the next release is taken up only when
\* the narration of this one has returned.
C16_Step ==
    /\ Cardinality(inFlight) <= 1
    /\ Cardinality(inFlight') <= 1
    /\ inFlight' # {} => inFlight' = {NextRequest'}
    /\ pc # "load" => Cardinality(DOMAIN Written(cache, cache')) <= 1
    /\ i' # i =>
          /\ i' = i + 1
          /\ j > Len(releases.list)
          /\ inFlight = {} /\ inFlight' = {}
          /\ Len(projects') = i
    /\ j' # j =>
          \/ j' = j + 1 /\ Len(narrated') = j /\ inFlight' = {}
          \/ j' = 1 /\ inFlight' = {}

RECURSIVE ClosingBrace(_, _, _)
ClosingBrace(t, p, depth) ==
    IF p > Len(t) THEN 0
    ELSE IF t[p] = "{" THEN ClosingBrace(t, p + 1, depth + 1)
    ELSE IF t[p] = "}"
    THEN (IF depth = 1 THEN p ELSE ClosingBrace(t, p + 1, depth - 1))
    ELSE ClosingBrace(t, p + 1, depth)

\* The first balanced brace-delimited object of a text.
FirstBalanced(t) ==
    LET starts == {a \in Positions(t, "{") : ClosingBrace(t, a + 1, 1) # 0}
    IN  IF starts = {} THEN [found |-> FALSE, text |-> <<>>]
        ELSE [found |-> TRUE,
              text |-> SubSeq(t, Min(starts), ClosingBrace(t, Min(starts) + 1, 1))]

\* C17: when the service was asked and returned a text, the classifier uses
\* the first balanced brace-delimited object of the text if that object is
\* valid JSON, whatever prose precedes or follows it, and returns the fallback
\* only when there is no such object or it is not valid JSON.
C17_FirstBalancedObject ==
    metaCall.made /\ metaCall.asked /\ Truthy(metaCall.content)
        => LET object == FirstBalanced(metaCall.content.text)
           IN  IF object.found /\ JsonParse(object.text).ok
               THEN aiMeta = JsonParse(object.text).value
               ELSE aiMeta = FallbackMetadata(repos[i])

\* C18: no step of a run after the loading of the cache changes or removes an
\* entry the in-memory cache holds, and the file saved holds every entry that
\* was loaded, unchanged.
C18_AppendOnly ==
    [][pc # "load" =>
          /\ \A key \in DOMAIN cache : key \in DOMAIN cache' /\ cache'[key] = cache[key]
          /\ \A key \in DOMAIN LoadCacheResult(cacheFile) :
                /\ key \in DOMAIN cacheFile'.mapping
                /\ cacheFile'.mapping[key] = LoadCacheResult(cacheFile)[key]]_vars

\* C19 as a step of a run without a key: no request goes to the generative
\* service; a repository whose metadata is not cached gets the fallback; a
\* release whose post is not cached gets no post; the cache is as it was
\* loaded and the file saved holds what was loaded; every card of the index
\* can be built, and the index is written with them.
C19_Step ==
    /\ poeCalls' = 0
    /\ \A request \in inFlight' : request.kind \notin {"poe", "models"}
    /\ pc # "load" => cache' = cache
    /\ produced' = EmptyCache
    /\ pc = "meta" /\ ~Truthy(CacheGet(cache, MetaKey(repos[i].id)))
          => metaCall'.asked /\ aiMeta' = FallbackMetadata(repos[i])
    /\ pc = "posts" /\ j' = j + 1 /\ ~Truthy(CacheGet(cache, PostKey(releases.list[j].id)))
          => /\ narrated'[j].asked
             /\ narrated'[j].result = JsNull
             /\ blogPosts' = blogPosts
    /\ pc = "save" /\ pc' = "index" => cacheFile'.mapping = LoadCacheResult(cacheFile)
    /\ pc = "index" =>
          /\ \A n \in 1..Len(projects) : ~BuildCardThrows(projects[n].aiMeta)
          /\ pc' = "done" => indexDoc'.written
                                /\ indexDoc'.page = GenerateIndexPage(projects)

====
